---- MODULE Spec2Model ----
(***************************************************************************)
(* AI generation gateway of sw-musicfasapi.                                *)
(*                                                                         *)
(* Three lazily constructed singleton services                             *)
(*   gai = GoogleCloudAIService   (app/services/google_ai.py)              *)
(*   vai = VertexAIService        (app/services/vertex_ai.py)              *)
(*   vas = VertexAIServiceSimple  (app/services/vertex_ai_simple.py)       *)
(* are used by request tasks that run on one asyncio event loop.  A task   *)
(* keeps the loop from the moment it is dispatched until it really         *)
(* suspends; the accessors, the constructors and the SDK calls of the      *)
(* services are synchronous, so none of them gives the loop away.          *)
(*                                                                         *)
(* Spec follows the request tasks.  HelperSpec follows one call of the     *)
(* helpers that build what is sent to a provider (the generation config,   *)
(* the generation parameters, the playlist prompt) over all its arguments. *)
(* SoundCloudSpec follows one request to the SoundCloud routes              *)
(* (app/api/routes/soundcloud.py) and StartSpec the start script (start.py).*)
(***************************************************************************)
EXTENDS Integers, Sequences, FiniteSets, TLC

\* ------------------------------------------------------------------ bounds
NumTasks == 2
MaxChunks == 2
MaxInits == 2
MaxSongs == 11
MaxPieces == 3

\* songs[:10] of generate_playlist_description
SongLimit == 10

\* max_retries of wait_for_database
max_retries == 30

Tasks == 1..NumTasks
Services == {"gai", "vai", "vas"}
Texts == {"r1", "r2"}
Chunks == {"", "a", "b"}

\* -------------------------------------------------------------- operations
GaiOps == {"generate_text_with_bison", "generate_text_with_gemini",
           "generate_music_intro", "generate_playlist_description",
           "analyze_music_preferences", "test_connection",
           "get_service_status"}
\* vertex_ai_status is generate_content as GET /vertex-ai/status calls it, to
\* probe the connection
VaiOps == {"generate_content", "generate_content_stream",
           "generate_music_analysis", "generate_music_recommendation",
           "vertex_ai_status"}
VasOps == {"generate_content", "generate_content_stream", "get_status"}

OpsOf(s) == IF s = "gai" THEN GaiOps ELSE IF s = "vai" THEN VaiOps ELSE VasOps

\* the operations behind POST /generate-text and /test-text
TextOps == {"generate_text_with_bison", "generate_text_with_gemini"}

\* request.model of GenerateTextRequest ("other": any other string)
ModelChoices == {"text-bison", "gemini-pro", "other"}

\* `if request.model == "gemini-pro": ... else: ...` of generate_text
GenerateTextOp(m) ==
    IF m = "gemini-pro" THEN "generate_text_with_gemini" ELSE "generate_text_with_bison"

\* audio_file.content_type of POST /analyze-music: None, or a string, written as
\* the sequence of its parts ("audio/wav" is <<"audio/", "wav">>)
NoContentType == [present |-> FALSE, text |-> <<>>]

ContentTypes ==
    {NoContentType} \cup
    {[present |-> TRUE, text |-> q] :
        q \in {<<>>, <<"audio/", "wav">>, <<"audio">>, <<"text/", "plain">>,
                <<"video/", "audio/">>}}

\* a content type that the check accepts where the source accepts none
AudioContentType_AnyPresent(c) == c.present

\* `audio_file.content_type and audio_file.content_type.startswith('audio/')`
AudioContentType(c) == c.present /\ c.text # <<>> /\ Head(c.text) = "audio/"

Requests ==
    {[svc |-> s, op |-> o, model |-> m, content_type |-> c] :
        s \in Services, o \in GaiOps \cup VaiOps \cup VasOps, m \in ModelChoices \cup {"none"},
        c \in ContentTypes}

\* the requests the routes can make: text generation names its operation by
\* request.model, the other requests carry no model
ValidRequests ==
    {r \in Requests :
        /\ r.op \in OpsOf(r.svc)
        /\ IF r.op \in TextOps
           THEN r.model \in ModelChoices /\ r.op = GenerateTextOp(r.model)
           ELSE r.model = "none"
        /\ r.op # "generate_music_analysis" => r.content_type = NoContentType}

StatusOps == {"get_service_status", "get_status"}

\* status routes that probe the service with a generation call
ProbeOps == {"vertex_ai_status"}

\* a playlist description that falls back to Gemini as well
FallbackOps_WithPlaylist ==
    {"generate_music_intro", "test_connection", "generate_playlist_description"}

\* operations that try text-bison first and Gemini on failure
FallbackOps == {"generate_music_intro", "test_connection"}

\* operations whose (first) provider is text-bison
BisonOps == {"generate_text_with_bison", "generate_playlist_description"} \cup FallbackOps

\* operations whose only provider is gemini-pro
GeminiOps == {"generate_text_with_gemini", "analyze_music_preferences"}

\* operations of vai / vas that read self.client.models.generate_content_stream
StreamOps == VaiOps \cup {"generate_content", "generate_content_stream"}

GenerationOps == BisonOps \cup GeminiOps \cup StreamOps

\* -------------------------------------------------------------- exceptions
NotInitialized == "NotInitialized"
GenerationFailure == "GenerationFailure"
OtherError == "OtherError"

ProviderErrors == {GenerationFailure, OtherError}

Return(v) == [ok |-> TRUE, val |-> v, err |-> "none"]
Raise(e) == [ok |-> FALSE, val |-> "", err |-> e]
NoOutcome == [ok |-> FALSE, val |-> "", err |-> "pending"]

TextOutcomes == {Return(v) : v \in Texts} \cup {Raise(e) : e \in ProviderErrors}

\* ------------------------------------------------------------------- state
VARIABLES
    settings,        \* app.core.config.settings: are GOOGLE_API_KEY / GOOGLE_CLOUD_PROJECT set
    instance,        \* module globals google_ai_service, vertex_ai_service, vertex_ai_service_simple
    is_initialized,  \* self.is_initialized of the service
    client,          \* self.client of the service
    initRuns,        \* how often _initialize_client has run, per service
    initLog,         \* what the last run of _initialize_client did, per service
    handed,          \* the instances each accessor has returned so far
    running,         \* the task that holds the event loop (0: none)
    task,            \* the frame of each request task
    call,            \* one call of a request-building helper, followed on its own
    sc,              \* one request to a SoundCloud route, followed on its own
    boot             \* the start script: wait_for_database, then uvicorn.run

vars == <<settings, instance, is_initialized, client, initRuns, initLog, handed, running, task, call,
          sc, boot>>

svcVars == <<instance, is_initialized, client, initRuns, initLog, handed>>

\* ------------------------------------------- construction of a service
CredOutcomes == {"found", "absent", "fault"}
SdkOutcomes == {"ok", "raise"}

\* google.auth.default(): credentials, DefaultCredentialsError, or any other exception
DefaultCall(cred) ==
    IF cred = "found" THEN Return("credentials")
    ELSE IF cred = "absent" THEN Raise("DefaultCredentialsError")
    ELSE Raise("CredentialFault")

\* vertexai.init(...) / genai.Client(...)
SdkCall(sdk) == IF sdk = "ok" THEN Return("client") ELSE Raise("SdkError")

\* the handler of the try around default(): `except DefaultCredentialsError` in
\* google_ai.py and vertex_ai.py, `except Exception` in vertex_ai_simple.py
InnerCatches(s, e) == IF s = "vas" THEN TRUE ELSE e = "DefaultCredentialsError"

\* the handler of the try around the whole of _initialize_client: `except Exception`
OuterCatches(s, e) == TRUE

\* the fields as __init__ leaves them before it calls _initialize_client
Fresh ==
    [is_initialized |-> FALSE, client |-> "None", method |-> "NONE",
     discovery |-> "notcalled", sdk |-> "notcalled", exc |-> "none"]

\* AmbientBody without the `return` of the DefaultCredentialsError handler
AmbientBody_NoReturn(s, cred, sdk) ==
    IF ~settings.project THEN Fresh
    ELSE LET d == DefaultCall(cred)
             seen == [Fresh EXCEPT !.discovery = cred, !.sdk = sdk,
                                   !.method = IF d.ok THEN "AMBIENT" ELSE "NONE"]
         IN IF ~d.ok /\ ~InnerCatches(s, d.err) THEN [Fresh EXCEPT !.discovery = cred, !.exc = d.err]
            ELSE IF ~SdkCall(sdk).ok THEN [seen EXCEPT !.exc = SdkCall(sdk).err]
            ELSE [seen EXCEPT !.is_initialized = TRUE,
                              !.client = IF s = "gai" THEN "None" ELSE "VertexClient"]

\* a body that sets the flag although it got no client
AmbientBody_NoClient(s, cred, sdk) ==
    IF ~settings.project THEN Fresh
    ELSE LET d == DefaultCall(cred) IN
         IF ~d.ok
         THEN IF InnerCatches(s, d.err)
              THEN [Fresh EXCEPT !.discovery = cred]
              ELSE [Fresh EXCEPT !.discovery = cred, !.exc = d.err]
         ELSE LET c == SdkCall(sdk)
                  found == [Fresh EXCEPT !.discovery = cred, !.method = "AMBIENT", !.sdk = sdk]
              IN IF ~c.ok
                 THEN [found EXCEPT !.exc = c.err]
                 ELSE [found EXCEPT !.is_initialized = TRUE]

\* try-body of _initialize_client of GoogleCloudAIService and VertexAIService
AmbientBody(s, cred, sdk) ==
    IF ~settings.project THEN Fresh
    ELSE LET d == DefaultCall(cred) IN
         IF ~d.ok
         THEN IF InnerCatches(s, d.err)
              THEN [Fresh EXCEPT !.discovery = cred]
              ELSE [Fresh EXCEPT !.discovery = cred, !.exc = d.err]
         ELSE LET c == SdkCall(sdk)
                  found == [Fresh EXCEPT !.discovery = cred, !.method = "AMBIENT", !.sdk = sdk]
              IN IF ~c.ok
                 THEN [found EXCEPT !.exc = c.err]
                 ELSE [found EXCEPT !.is_initialized = TRUE,
                                    !.client = IF s = "gai" THEN "None" ELSE "VertexClient"]

\* ApiKeyBody with the two checks in the other order: ambient credentials first
ApiKeyBody_AmbientFirst(s, cred, sdk) ==
    IF settings.project /\ DefaultCall(cred).ok
    THEN LET found == [Fresh EXCEPT !.discovery = cred, !.method = "AMBIENT", !.sdk = sdk]
         IN IF ~SdkCall(sdk).ok THEN found
            ELSE [found EXCEPT !.is_initialized = TRUE, !.client = "VertexClient"]
    ELSE LET seen == [Fresh EXCEPT !.discovery = IF settings.project THEN cred ELSE "notcalled"]
         IN IF ~settings.apiKey THEN seen
            ELSE IF ~SdkCall(sdk).ok
            THEN [seen EXCEPT !.method = "API_KEY", !.sdk = sdk]
            ELSE [seen EXCEPT !.method = "API_KEY", !.sdk = sdk,
                              !.is_initialized = TRUE, !.client = "ApiKeyClient"]

\* try-body of _initialize_client of VertexAIServiceSimple
ApiKeyBody(s, cred, sdk) ==
    IF settings.apiKey
    THEN LET c == SdkCall(sdk)
             keyed == [Fresh EXCEPT !.method = "API_KEY", !.sdk = sdk]
         IN IF ~c.ok
            THEN [keyed EXCEPT !.exc = c.err]
            ELSE [keyed EXCEPT !.is_initialized = TRUE, !.client = "ApiKeyClient"]
    ELSE IF settings.project
    THEN LET d == DefaultCall(cred) IN
         IF ~d.ok
         THEN IF InnerCatches(s, d.err)
              THEN [Fresh EXCEPT !.discovery = cred]
              ELSE [Fresh EXCEPT !.discovery = cred, !.exc = d.err]
         ELSE LET c == SdkCall(sdk)
                  found == [Fresh EXCEPT !.discovery = cred, !.method = "AMBIENT", !.sdk = sdk]
              IN IF ~c.ok
                 THEN IF InnerCatches(s, c.err) THEN found ELSE [found EXCEPT !.exc = c.err]
                 ELSE [found EXCEPT !.is_initialized = TRUE, !.client = "VertexClient"]
    ELSE Fresh

\* _initialize_client: the body under the outer handler.  exc is the exception
\* that leaves _initialize_client, and so the constructor ("none": it returns).
InitializeClient(s, cred, sdk) ==
    LET b == IF s = "vas" THEN ApiKeyBody(s, cred, sdk) ELSE AmbientBody(s, cred, sdk)
    IN IF b.exc # "none" /\ OuterCatches(s, b.exc)
       THEN [b EXCEPT !.is_initialized = FALSE, !.client = "None", !.exc = "none"]
       ELSE b

\* an accessor that constructs the service on every call
AccessorConstructs_Always(s) == TRUE

\* an accessor that constructs the service again while it is not initialized
AccessorConstructs_Retry(s) == instance[s] = 0 \/ ~is_initialized[s]

\* `if <global> is None` of the accessors
AccessorConstructs(s) == instance[s] = 0

\* a check that lets every call through
CheckInitialization_Skipped(s) == TRUE

\* _check_initialization / _check_client: TRUE when the check passes
CheckInitialization(s) ==
    IF s = "gai" THEN is_initialized[s]
    ELSE is_initialized[s] /\ client[s] # "None"

NoLog == [method |-> "NONE", discovery |-> "notcalled", sdk |-> "notcalled", exc |-> "none"]

LogOf(r) == [method |-> r.method, discovery |-> r.discovery, sdk |-> r.sdk, exc |-> r.exc]

State(s) ==
    IF instance[s] = 0 THEN "Uninitialized"
    ELSE IF is_initialized[s] THEN "Ready" ELSE "Unavailable"

\* ------------------------------------------------------------ task frames
Providers == {"bison", "gemini", "stream"}

NoRequest == [svc |-> "none", op |-> "none", model |-> "none", content_type |-> NoContentType]
NoCalls == [p \in Providers |-> 0]
NoStream == [chunks |-> <<>>, err |-> FALSE]
NoSnapshot == [none |-> TRUE]
NoRoute == [kind |-> "none"]

\* a task between two requests
Idle ==
    [pc |-> "idle", fresh |-> FALSE, req |-> NoRequest, upload_read |-> FALSE, svc |-> 0,
     constructed |-> FALSE,
     inflight |-> {}, calls |-> NoCalls, primary |-> NoOutcome, secondary |-> FALSE,
     second |-> NoOutcome, stream |-> NoStream, yielded |-> <<>>,
     snapshot |-> NoSnapshot, out |-> NoOutcome, http |-> NoRoute]

\* ------------------------------------------------------------ route layer
HasRoute(r) == r.svc = "gai" \/ (r.svc = "vai" /\ r.op # "generate_content_stream")

\* the validation of analyze_music: the upload must be audio
RouteRejects(r) ==
    r.svc = "vai" /\ r.op = "generate_music_analysis" /\ ~AudioContentType(r.content_type)

\* an HTTPException raised by the handler itself
RouteError == Raise("HTTPException")

\* route handlers that answer a failed operation with an empty success
RouteResponse_EmptyOnFailure(r, o, snap) ==
    IF ~HasRoute(r) THEN NoRoute
    ELSE IF RouteRejects(r)
    THEN [kind |-> "HTTPException", status |-> 400,
          body |-> [detail |-> "El archivo debe ser un audio valido"]]
    ELSE IF r.op \in StatusOps
    THEN [kind |-> "json", status |-> 200, body |-> snap @@ ("success" :> TRUE)]
    ELSE [kind |-> "json", status |-> 200,
          body |-> [content |-> IF o.ok THEN o.val ELSE "", success |-> TRUE]]

\* the try/except of the route handlers in app/api/routes
RouteResponse(r, o, snap) ==
    IF ~HasRoute(r) THEN NoRoute
    ELSE IF RouteRejects(r)
    THEN [kind |-> "HTTPException", status |-> 400,
          body |-> [detail |-> "El archivo debe ser un audio valido"]]
    ELSE IF r.op \in StatusOps
    THEN IF o.ok
         THEN [kind |-> "json", status |-> 200, body |-> snap @@ ("success" :> TRUE)]
         ELSE [kind |-> "json", status |-> 200,
               body |-> [initialized |-> FALSE, error |-> o.err, success |-> FALSE]]
    ELSE IF r.op \in ProbeOps
    THEN IF o.ok
         THEN [kind |-> "json", status |-> 200,
               body |-> [status |-> "connected", model |-> "model", test_response |-> o.val,
                         success |-> TRUE]]
         ELSE [kind |-> "json", status |-> 200,
               body |-> [status |-> "error", error |-> o.err, success |-> FALSE]]
    ELSE IF ~o.ok
    THEN [kind |-> "HTTPException", status |-> 500, body |-> [detail |-> o.err]]
    ELSE IF r.op \in TextOps
    THEN [kind |-> "json", status |-> 200,
          body |-> [content |-> o.val, model_used |-> r.model, success |-> TRUE]]
    ELSE [kind |-> "json", status |-> 200, body |-> [content |-> o.val, success |-> TRUE]]

\* the provider call p is issued: the task blocks in the SDK until it returns
Issue(f, p) ==
    [f EXCEPT !.pc = "waiting", !.inflight = @ \cup {p}, !.calls[p] = @ + 1]

\* the operation ends: it returns a value or an exception leaves it, and the route
\* handler that called it shapes the response
Finish(f, o) ==
    [f EXCEPT !.pc = "finished", !.out = o, !.http = RouteResponse(f.req, o, f.snapshot)]

\* the handler of the try around generate_text_with_bison in generate_music_intro
\* and test_connection: `except Exception`
FallbackCatches(e) == TRUE

\* a fallback that surfaces the failure of the primary when both providers fail
AfterGemini_PrimaryError(f, o) ==
    Finish([f EXCEPT !.second = o], IF ~o.ok /\ f.secondary THEN f.primary ELSE o)

\* generate_text_with_gemini has ended with outcome o
AfterGemini(f, o) == Finish([f EXCEPT !.second = o], o)

\* generate_text_with_gemini, entered from the except branch of a fallback operation
EnterSecondary(f, s) ==
    LET g == [f EXCEPT !.secondary = TRUE]
    IN IF CheckInitialization(s) THEN Issue(g, "gemini") ELSE AfterGemini(g, Raise(NotInitialized))

\* a fallback operation that calls Gemini whatever text-bison did
AfterPrimary_Always(f, s, o) ==
    LET g == [f EXCEPT !.primary = o]
    IN IF f.req.op \in FallbackOps THEN EnterSecondary(g, s) ELSE Finish(g, o)

\* generate_text_with_bison has ended with outcome o
AfterPrimary(f, s, o) ==
    LET g == [f EXCEPT !.primary = o]
    IN IF ~o.ok /\ f.req.op \in FallbackOps /\ FallbackCatches(o.err)
       THEN EnterSecondary(g, s)
       ELSE Finish(g, o)

\* get_service_status / get_status
ServiceStatus(s) ==
    IF s = "gai"
    THEN [initialized |-> is_initialized[s],
          project_id |-> IF settings.project THEN "project" ELSE "None",
          location |-> "location",
          available_models |-> <<"text-bison", "gemini-pro">>]
    ELSE [initialized |-> is_initialized[s],
          model |-> "model",
          auth_method |-> IF settings.apiKey THEN "API_KEY" ELSE "DEFAULT_CREDENTIALS",
          project |-> IF settings.project THEN "project" ELSE "No configurado"]

\* the body of the operation up to its first provider call
EnterOp(f, s) ==
    LET op == f.req.op IN
    IF op \in StatusOps THEN Finish([f EXCEPT !.snapshot = ServiceStatus(s)], Return("status"))
    ELSE IF op \in BisonOps
    THEN IF CheckInitialization(s) THEN Issue(f, "bison")
         ELSE AfterPrimary(f, s, Raise(NotInitialized))
    ELSE IF op \in GeminiOps
    THEN IF CheckInitialization(s) THEN Issue(f, "gemini")
         ELSE AfterGemini(f, Raise(NotInitialized))
    ELSE IF CheckInitialization(s) THEN Issue(f, "stream")
         ELSE Finish(f, Raise(NotInitialized))

\* ----------------------------------------------------------------- streams
RECURSIVE SeqsUpTo(_)
SeqsUpTo(n) ==
    IF n = 0 THEN {<<>>}
    ELSE LET shorter == SeqsUpTo(n - 1)
         IN shorter \cup {Append(q, c) : q \in {x \in shorter : Len(x) = n - 1}, c \in Chunks}

\* what self.client.models.generate_content_stream can deliver: some chunks,
\* and then either the end of the stream or an exception
StreamOutcomes == {[chunks |-> q, err |-> e] : q \in SeqsUpTo(MaxChunks), e \in BOOLEAN}

\* a reader that takes an empty chunk for the end of the stream
RECURSIVE Fragments_StopAtEmpty(_)
Fragments_StopAtEmpty(q) ==
    IF q = <<>> \/ Head(q) = "" THEN <<>>
    ELSE <<Head(q)>> \o Fragments_StopAtEmpty(Tail(q))

\* `if chunk.text: yield chunk.text`
RECURSIVE Fragments(_)
Fragments(q) ==
    IF q = <<>> THEN <<>>
    ELSE IF Head(q) # "" THEN <<Head(q)>> \o Fragments(Tail(q))
    ELSE Fragments(Tail(q))

\* an aggregation that puts each fragment in front of the text so far
RECURSIVE Concat_Reversed(_)
Concat_Reversed(q) == IF q = <<>> THEN "" ELSE Concat_Reversed(Tail(q)) \o Head(q)

\* `result = ""; for chunk: result += chunk`
RECURSIVE Concat(_)
Concat(q) == IF q = <<>> THEN "" ELSE Head(q) \o Concat(Tail(q))

\* an aggregation that returns what it has when the stream raises
AfterStream_Partial(f, o) ==
    LET g == [f EXCEPT !.stream = o, !.yielded = Fragments(o.chunks)]
    IN IF f.req.op = "generate_content_stream"
       THEN Finish(g, IF o.err THEN Raise(GenerationFailure) ELSE Return("exhausted"))
       ELSE Finish(g, Return(Concat(g.yielded)))

\* the stream has delivered o: what the operation makes of it
AfterStream(f, o) ==
    LET g == [f EXCEPT !.stream = o, !.yielded = Fragments(o.chunks)]
    IN IF o.err THEN Finish(g, Raise(GenerationFailure))
       ELSE IF f.req.op = "generate_content_stream" THEN Finish(g, Return("exhausted"))
       ELSE Finish(g, Return(Concat(g.yielded)))

\* ------------------------------------------------- request-building helpers
\* Parameter values are in hundredths for temperature and top_p (0.95 is 95).
Temperatures == {-100, 0, 30, 200, 250}
TopPs == {-5, 0, 95, 100, 105}
TopKs == {0, 1, 40}
MaxTokens == {0, 1, 65535}

\* the arguments of _create_generate_config
ConfigArgs == [temperature : Temperatures, top_p : TopPs, max_output_tokens : MaxTokens]

\* the generation parameters of generate_text_with_bison / generate_text_with_gemini
TextArgs ==
    [temperature : Temperatures, top_p : TopPs, top_k : TopKs, max_output_tokens : MaxTokens]

HarmCategories ==
    <<"HARM_CATEGORY_HATE_SPEECH", "HARM_CATEGORY_DANGEROUS_CONTENT",
      "HARM_CATEGORY_SEXUALLY_EXPLICIT", "HARM_CATEGORY_HARASSMENT">>

\* _create_safety_settings
CreateSafetySettings ==
    [i \in 1..Len(HarmCategories) |-> [category |-> HarmCategories[i], threshold |-> "OFF"]]

\* thinking_budget of types.ThinkingConfig
ThinkingBudget == -1

\* types.ThinkingConfig(thinking_budget=-1)
ThinkingConfig == [thinking_budget |-> ThinkingBudget]

\* a builder whose safety thresholds follow the temperature of the call
CreateGenerateConfig_CallerSafety(a) ==
    [temperature |-> a.temperature,
     top_p |-> a.top_p,
     max_output_tokens |-> a.max_output_tokens,
     safety_settings |->
        [i \in 1..Len(HarmCategories) |->
            [category |-> HarmCategories[i],
             threshold |-> IF a.temperature > 0 THEN "OFF" ELSE "BLOCK_ONLY_HIGH"]],
     thinking_config |-> ThinkingConfig]

\* a builder whose thinking budget follows max_output_tokens
CreateGenerateConfig_CallerThinking(a) ==
    [temperature |-> a.temperature,
     top_p |-> a.top_p,
     max_output_tokens |-> a.max_output_tokens,
     safety_settings |-> CreateSafetySettings,
     thinking_config |-> [thinking_budget |-> a.max_output_tokens]]

\* _create_generate_config of VertexAIService and VertexAIServiceSimple
CreateGenerateConfig(a) ==
    [temperature |-> a.temperature,
     top_p |-> a.top_p,
     max_output_tokens |-> a.max_output_tokens,
     safety_settings |-> CreateSafetySettings,
     thinking_config |-> ThinkingConfig]

\* generation_config of generate_text_with_gemini, and the keyword arguments of
\* model.predict in generate_text_with_bison
TextGenerationConfig(a) ==
    [temperature |-> a.temperature,
     top_p |-> a.top_p,
     top_k |-> a.top_k,
     max_output_tokens |-> a.max_output_tokens]

SongNames == {"x", "y"}

SongLists == UNION {[1..n -> SongNames] : n \in 0..MaxSongs}

\* a playlist prompt made of all the songs
SongsUsed_All(songs) == songs

\* songs[:10]
SongsUsed(songs) ==
    SubSeq(songs, 1, IF Len(songs) < SongLimit THEN Len(songs) ELSE SongLimit)

\* "\n".join(...)
RECURSIVE JoinLines(_)
JoinLines(q) ==
    IF q = <<>> THEN ""
    ELSE IF Len(q) = 1 THEN q[1]
    ELSE (q[1] \o "\n") \o JoinLines(Tail(q))

\* the prompt of generate_playlist_description and the parameters it passes to
\* generate_text_with_bison (used: the entries of songs that are in the prompt)
PlaylistRequest(songs) ==
    [prompt |-> [playlist_name |-> "name", theme |-> "theme",
                 songs_text |-> JoinLines(SongsUsed(songs))],
     used |-> SongsUsed(songs),
     temperature |-> 70,
     max_output_tokens |-> 256]

\* the arguments of generate_music_intro (test_connection takes none)
IntroArgs ==
    [style : {"radio", "podcast"}, genre : {"pop", "rock"}, language : {"es"},
     duration : {"30s", "60s"}]

\* the prompt of generate_music_intro (an f-string over its arguments) and the
\* fixed prompt of test_connection
FallbackPrompt(fn, a) ==
    IF fn = "generate_music_intro"
    THEN [template |-> "intro", style |-> a.style, genre |-> a.genre,
          language |-> a.language, duration |-> a.duration]
    ELSE [template |-> "Escribe un saludo corto y amigable para probar la conexion."]

\* generate_text_with_bison(prompt, temperature, max_output_tokens): what goes to
\* model.predict, top_p and top_k at their defaults
BisonCall(prompt, temperature, max_output_tokens) ==
    [model |-> "text-bison", prompt |-> prompt, temperature |-> temperature,
     max_output_tokens |-> max_output_tokens, top_p |-> 80, top_k |-> 40]

\* a Gemini call that runs with its own defaults, whatever is passed
GeminiCall_OwnDefaults(prompt, temperature, max_output_tokens) ==
    [model |-> "gemini-pro", prompt |-> prompt, temperature |-> 90,
     max_output_tokens |-> 2048, top_p |-> 100, top_k |-> 32]

\* generate_text_with_gemini(prompt, temperature, max_output_tokens): what goes to
\* model.generate_content, top_p and top_k at their defaults
GeminiCall(prompt, temperature, max_output_tokens) ==
    [model |-> "gemini-pro", prompt |-> prompt, temperature |-> temperature,
     max_output_tokens |-> max_output_tokens, top_p |-> 100, top_k |-> 32]

\* the try-call and the except-call of generate_music_intro / test_connection
FallbackRequests(fn, a) ==
    LET prompt == FallbackPrompt(fn, a)
        temperature == IF fn = "generate_music_intro" THEN 80 ELSE 50
        max_output_tokens == IF fn = "generate_music_intro" THEN 512 ELSE 100
    IN [primary |-> BisonCall(prompt, temperature, max_output_tokens),
        secondary |-> GeminiCall(prompt, temperature, max_output_tokens)]

NoArgs == [none |-> TRUE]

NoCall == [pc |-> "idle", fn |-> "none", args |-> NoArgs, result |-> NoArgs, sent |-> NoArgs]

\* what the helper fn makes of the arguments a
HelperResult(fn, a) ==
    IF fn = "_create_generate_config" THEN CreateGenerateConfig(a)
    ELSE IF fn = "generation_config" THEN TextGenerationConfig(a)
    ELSE IF fn \in FallbackOps THEN FallbackRequests(fn, a)
    ELSE PlaylistRequest(a.songs)

\* ------------------------------------------------------ SoundCloud routes
\* A string is followed as the sequence of its pieces: the two prefixes the
\* route looks for, and "x" for any other text.
Pieces == {"Bearer ", "OAuth ", "x"}

Strings == UNION {[1..n -> Pieces] : n \in 0..MaxPieces}

\* Optional[str]: None, or a string
None == [present |-> FALSE, value |-> <<>>]

Some(v) == [present |-> TRUE, value |-> v]

\* the access_token query parameter and the Authorization header
QueryValues == {None, Some(<<>>), Some(<<"x">>)}

HeaderValues == {None} \cup {Some(v) : v \in Strings}

Codes == {"c1", "c2"}

\* Python truth of an Optional[str]
Truthy(o) == o.present /\ o.value # <<>>

\* str.startswith(p)
StartsWith(v, p) == Len(v) > 0 /\ v[1] = p

\* str.replace(p, ""): every occurrence goes
Replace(v, p) == SelectSeq(v, LAMBDA c : c # p)

\* lines 116-123 of get_soundcloud_tracks
ResolveToken(access_token, authorization) ==
    IF ~Truthy(access_token) /\ Truthy(authorization)
    THEN IF StartsWith(authorization.value, "Bearer ")
         THEN Some(Replace(authorization.value, "Bearer "))
         ELSE IF StartsWith(authorization.value, "OAuth ")
         THEN Some(Replace(authorization.value, "OAuth "))
         ELSE authorization
    ELSE access_token

\* what the SoundCloud API does with a request: a response, or httpx.RequestError
UpstreamStatuses == {200, 400, 401, 503}

UpstreamTexts == {"e1", "e2"}

NoUpstream == [kind |-> "none", status |-> 0, text |-> ""]

UpstreamOutcomes ==
    {[kind |-> "RequestError", status |-> 0, text |-> ""]}
    \cup [kind : {"response"}, status : UpstreamStatuses, text : UpstreamTexts]

\* what leaves a try body: a returned model, or a raised exception
Returned == [raised |-> "none", status |-> 200, msg |-> "", text |-> ""]

HTTPException(status, msg, text) ==
    [raised |-> "HTTPException", status |-> status, msg |-> msg, text |-> text]

RequestError == [raised |-> "RequestError", status |-> 0, msg |-> "", text |-> ""]

\* the try body of get_soundcloud_token from the upstream outcome on
TokenBody(o) ==
    IF o.kind = "RequestError" THEN RequestError
    ELSE IF o.status # 200
    THEN HTTPException(o.status, "Error obteniendo token de SoundCloud: ", o.text)
    ELSE Returned

\* the except clauses of get_soundcloud_token: httpx.RequestError, then Exception.
\* HTTPException is an Exception, and str(e) of it carries its status and detail.
TokenCatches(e) ==
    IF e.raised = "none" THEN e
    ELSE IF e.raised = "RequestError"
    THEN HTTPException(500, "Error de conexion con SoundCloud", "")
    ELSE HTTPException(500, "Error inesperado: ", e.text)

\* the try body of get_soundcloud_tracks from the upstream outcome on
TracksBody(o) ==
    IF o.kind = "RequestError" THEN RequestError
    ELSE IF o.status = 401
    THEN HTTPException(401, "Token de SoundCloud invalido o expirado", "")
    ELSE IF o.status # 200
    THEN HTTPException(o.status, "Error obteniendo canciones de SoundCloud: ", o.text)
    ELSE Returned

\* the except clauses of get_soundcloud_tracks: HTTPException is raised again,
\* then httpx.RequestError, then Exception
TracksCatches(e) ==
    IF e.raised \in {"none", "HTTPException"} THEN e
    ELSE IF e.raised = "RequestError"
    THEN HTTPException(500, "Error de conexion con SoundCloud", "")
    ELSE HTTPException(500, "Error inesperado: ", e.text)

\* raise HTTPException(status_code=401, ...) of lines 125-129
TokenRequired == HTTPException(401, "Access token de SoundCloud requerido", "")

NoScRequest ==
    [pc |-> "idle", route |-> "none", code |-> "", access_token |-> None,
     authorization |-> None, token |-> None, requests |-> 0, sent |-> <<>>,
     upstream |-> NoUpstream, response |-> Returned]

\* a request reaches POST /soundcloud/auth/token or GET /soundcloud/tracks
ScArrive ==
    /\ sc.pc = "idle"
    /\ \/ \E c \in Codes :
             sc' = [sc EXCEPT !.pc = "called", !.route = "get_soundcloud_token", !.code = c]
       \/ \E q \in QueryValues, h \in HeaderValues :
             sc' = [sc EXCEPT !.pc = "called", !.route = "get_soundcloud_tracks",
                              !.access_token = q, !.authorization = h]
    /\ UNCHANGED <<boot, call, settings, svcVars, running, task>>

\* the handler up to its upstream request: get_soundcloud_tracks resolves the
\* token and raises 401 without one (the raise passes `except HTTPException`)
ScPrepare ==
    /\ sc.pc = "called"
    /\ IF sc.route = "get_soundcloud_token"
       THEN sc' = [sc EXCEPT !.pc = "upstream", !.requests = @ + 1, !.sent = <<sc.code>>]
       ELSE LET token == ResolveToken(sc.access_token, sc.authorization) IN
            IF ~Truthy(token)
            THEN sc' = [sc EXCEPT !.pc = "responded", !.token = token,
                                  !.response = TracksCatches(TokenRequired)]
            ELSE sc' = [sc EXCEPT !.pc = "upstream", !.token = token, !.requests = @ + 1,
                                  !.sent = <<"OAuth ">> \o token.value]
    /\ UNCHANGED <<boot, call, settings, svcVars, running, task>>

\* the upstream answers or the connection fails; the rest of the handler runs
ScUpstream ==
    /\ sc.pc = "upstream"
    /\ \E o \in UpstreamOutcomes :
          sc' = [sc EXCEPT !.pc = "responded", !.upstream = o,
                           !.response = IF sc.route = "get_soundcloud_token"
                                        THEN TokenCatches(TokenBody(o))
                                        ELSE TracksCatches(TracksBody(o))]
    /\ UNCHANGED <<boot, call, settings, svcVars, running, task>>

\* the response has gone out
ScDone ==
    /\ sc.pc = "responded"
    /\ sc' = NoScRequest
    /\ UNCHANGED <<boot, call, settings, svcVars, running, task>>

SoundCloudNext == ScArrive \/ ScPrepare \/ ScUpstream \/ ScDone

\* ------------------------------------------------------------ start script
\* main() has just been entered; wait_for_database is at its loop test
BootStart ==
    [pc |-> "loop", retry_count |-> 0, attempts |-> 0, sleeps |-> 0,
     slept |-> FALSE, result |-> "none"]

\* the except branch that returns False only after one more time.sleep(2)
AfterFailure_SleepsFirst(b) ==
    [b EXCEPT !.retry_count = @ + 1, !.pc = "sleep"]

\* the except branch of wait_for_database, lines 22-28
AfterFailure(b) ==
    LET n == b.retry_count + 1 IN
    IF n >= max_retries
    THEN [b EXCEPT !.retry_count = n, !.pc = "returned", !.result = "False"]
    ELSE [b EXCEPT !.retry_count = n, !.pc = "sleep"]

\* while retry_count < max_retries: ... ; return False
LoopTest ==
    /\ boot.pc = "loop"
    /\ boot' = IF boot.retry_count < max_retries
               THEN [boot EXCEPT !.pc = "connect"]
               ELSE [boot EXCEPT !.pc = "returned", !.result = "False"]
    /\ UNCHANGED <<sc, call, settings, svcVars, running, task>>

\* the try body: one connection attempt, which succeeds or raises
Connect ==
    /\ boot.pc = "connect"
    /\ \E ok \in BOOLEAN :
          LET b == [boot EXCEPT !.attempts = @ + 1, !.slept = FALSE] IN
          boot' = IF ok THEN [b EXCEPT !.pc = "returned", !.result = "True"]
                  ELSE AfterFailure(b)
    /\ UNCHANGED <<sc, call, settings, svcVars, running, task>>

\* time.sleep(2)
Sleep ==
    /\ boot.pc = "sleep"
    /\ boot' = [boot EXCEPT !.pc = "loop", !.sleeps = @ + 1, !.slept = TRUE]
    /\ UNCHANGED <<sc, call, settings, svcVars, running, task>>

\* main() after wait_for_database(): its result is dropped, uvicorn.run is called
StartServer ==
    /\ boot.pc = "returned"
    /\ boot' = [boot EXCEPT !.pc = "serving"]
    /\ UNCHANGED <<sc, call, settings, svcVars, running, task>>

StartNext == LoopTest \/ Connect \/ Sleep \/ StartServer

\* ------------------------------------------------------------------ actions
Init ==
    /\ settings \in [apiKey : BOOLEAN, project : BOOLEAN]
    /\ instance = [s \in Services |-> 0]
    /\ is_initialized = [s \in Services |-> FALSE]
    /\ client = [s \in Services |-> "None"]
    /\ initRuns = [s \in Services |-> 0]
    /\ initLog = [s \in Services |-> NoLog]
    /\ handed = [s \in Services |-> {}]
    /\ running = 0
    /\ task = [t \in Tasks |-> Idle]
    /\ call = NoCall
    /\ sc = NoScRequest
    /\ boot = BootStart

\* a request arrives and its handler is scheduled on the event loop; fresh notes
\* whether it arrived before any service of the process was constructed
Arrive(t) ==
    /\ task[t].pc = "idle"
    /\ task' = [task EXCEPT ![t].pc = "ready",
                             ![t].fresh = \A s \in Services : instance[s] = 0]
    /\ UNCHANGED <<sc, boot, call, settings, svcVars, running>>

\* the event loop is free and starts the handler of a scheduled request
Dispatch(t) ==
    /\ running = 0
    /\ task[t].pc = "ready"
    /\ \E r \in ValidRequests :
          IF RouteRejects(r)
          THEN task' = [task EXCEPT ![t].pc = "rejected", ![t].req = r, ![t].fresh = FALSE,
                                     ![t].out = RouteError,
                                     ![t].http = RouteResponse(r, RouteError, NoSnapshot)]
          ELSE task' = [task EXCEPT ![t].pc = "accessor", ![t].req = r,
                                     ![t].upload_read = (r.op = "generate_music_analysis")]
    /\ running' = t
    /\ UNCHANGED <<sc, boot, call, settings, svcVars>>

\* get_google_ai_service / get_vertex_ai_service / get_vertex_ai_service_simple
GetService(t) ==
    /\ running = t
    /\ task[t].pc = "accessor"
    /\ LET s == task[t].req.svc IN
       IF AccessorConstructs(s)
       THEN /\ initRuns[s] < MaxInits
            /\ \E cred \in CredOutcomes, sdk \in SdkOutcomes :
                 LET r == InitializeClient(s, cred, sdk) IN
                 /\ initRuns' = [initRuns EXCEPT ![s] = @ + 1]
                 /\ initLog' = [initLog EXCEPT ![s] = LogOf(r)]
                 /\ is_initialized' = [is_initialized EXCEPT ![s] = r.is_initialized]
                 /\ client' = [client EXCEPT ![s] = r.client]
                 /\ IF r.exc = "none"
                    THEN /\ instance' = [instance EXCEPT ![s] = initRuns[s] + 1]
                         /\ handed' = [handed EXCEPT ![s] = @ \cup {initRuns[s] + 1}]
                         /\ task' = [task EXCEPT ![t].pc = "enter", ![t].svc = initRuns[s] + 1,
                                                  ![t].constructed = TRUE]
                    ELSE /\ UNCHANGED <<instance, handed>>
                         /\ task' = [task EXCEPT ![t] = Finish([@ EXCEPT !.constructed = TRUE],
                                                               Raise(r.exc))]
       ELSE /\ task' = [task EXCEPT ![t].pc = "enter", ![t].svc = instance[s]]
            /\ handed' = [handed EXCEPT ![s] = @ \cup {instance[s]}]
            /\ UNCHANGED <<instance, is_initialized, client, initRuns, initLog>>
    /\ UNCHANGED <<sc, boot, call, settings, running>>

\* the service operation runs up to its first provider call (fresh and constructed
\* describe the accessor call and are not kept beyond it)
Enter(t) ==
    /\ running = t
    /\ task[t].pc = "enter"
    /\ task' = [task EXCEPT ![t] = EnterOp([@ EXCEPT !.fresh = FALSE, !.constructed = FALSE],
                                            @.req.svc)]
    /\ UNCHANGED <<sc, boot, call, settings, svcVars, running>>

\* a text-bison call that marks the service as not initialized when it fails
BisonReturn_ResetsFlag(t) ==
    /\ running = t
    /\ task[t].pc = "waiting"
    /\ "bison" \in task[t].inflight
    /\ \E o \in TextOutcomes :
          /\ task' = [task EXCEPT ![t] = AfterPrimary([@ EXCEPT !.inflight = @ \ {"bison"}], @.req.svc, o)]
          /\ is_initialized' = [is_initialized EXCEPT ![task[t].req.svc] = o.ok]
    /\ UNCHANGED <<sc, boot, call, settings, instance, client, initRuns, initLog, handed, running>>

\* TextGenerationModel.from_pretrained("text-bison").predict(...) returns or raises
BisonReturn(t) ==
    /\ running = t
    /\ task[t].pc = "waiting"
    /\ "bison" \in task[t].inflight
    /\ \E o \in TextOutcomes :
          task' = [task EXCEPT ![t] = AfterPrimary([@ EXCEPT !.inflight = @ \ {"bison"}], @.req.svc, o)]
    /\ UNCHANGED <<sc, boot, call, settings, svcVars, running>>

\* GenerativeModel("gemini-pro").generate_content(...) returns or raises
GeminiReturn(t) ==
    /\ running = t
    /\ task[t].pc = "waiting"
    /\ "gemini" \in task[t].inflight
    /\ \E o \in TextOutcomes :
          task' = [task EXCEPT ![t] = AfterGemini([@ EXCEPT !.inflight = @ \ {"gemini"}], o)]
    /\ UNCHANGED <<sc, boot, call, settings, svcVars, running>>

\* a drain that collects the fragments in a buffer that all requests share
StreamReturn_SharedBuffer(t) ==
    /\ running = t
    /\ task[t].pc = "waiting"
    /\ "stream" \in task[t].inflight
    /\ \E o \in StreamOutcomes :
          task' = [u \in Tasks |->
                      IF u = t THEN AfterStream([task[t] EXCEPT !.inflight = @ \ {"stream"}], o)
                      ELSE [task[u] EXCEPT !.yielded = Fragments(o.chunks)]]
    /\ UNCHANGED <<sc, boot, call, settings, svcVars, running>>

\* self.client.models.generate_content_stream(...) is read to its end or raises
StreamReturn(t) ==
    /\ running = t
    /\ task[t].pc = "waiting"
    /\ "stream" \in task[t].inflight
    /\ \E o \in StreamOutcomes :
          task' = [task EXCEPT ![t] = AfterStream([@ EXCEPT !.inflight = @ \ {"stream"}], o)]
    /\ UNCHANGED <<sc, boot, call, settings, svcVars, running>>

\* the handler hands its result to the caller and the task gives the loop back
Respond(t) ==
    /\ running = t
    /\ task[t].pc \in {"finished", "rejected"}
    /\ task' = [task EXCEPT ![t] = Idle]
    /\ running' = 0
    /\ UNCHANGED <<sc, boot, call, settings, svcVars>>

Next ==
    \E t \in Tasks :
        \/ Arrive(t)
        \/ Dispatch(t)
        \/ GetService(t)
        \/ Enter(t)
        \/ BisonReturn(t)
        \/ GeminiReturn(t)
        \/ StreamReturn(t)
        \/ Respond(t)

Spec == Init /\ [][Next]_vars

\* ---------------------------------------- the helpers, followed on their own
\* an operation of a Ready service reaches the point where it builds its request
CallHelper ==
    /\ call.pc = "idle"
    /\ \/ \E a \in ConfigArgs :
             call' = [call EXCEPT !.pc = "called", !.fn = "_create_generate_config", !.args = a]
       \/ \E a \in TextArgs :
             call' = [call EXCEPT !.pc = "called", !.fn = "generation_config", !.args = a]
       \/ \E q \in SongLists :
             call' = [call EXCEPT !.pc = "called", !.fn = "generate_playlist_description",
                                  !.args = [songs |-> q]]
       \/ \E a \in IntroArgs :
             call' = [call EXCEPT !.pc = "called", !.fn = "generate_music_intro", !.args = a]
       \/ call' = [call EXCEPT !.pc = "called", !.fn = "test_connection"]
    /\ UNCHANGED <<sc, boot, settings, svcVars, running, task>>

\* the helper runs
RunHelper ==
    /\ call.pc = "called"
    /\ call' = [call EXCEPT !.pc = "built", !.result = HelperResult(call.fn, call.args)]
    /\ UNCHANGED <<sc, boot, settings, svcVars, running, task>>

\* the request goes to the provider: config=config, generation_config=..., prompt=prompt
SendToProvider ==
    /\ call.pc = "built"
    /\ call' = [call EXCEPT !.pc = "sent", !.sent = call.result]
    /\ UNCHANGED <<sc, boot, settings, svcVars, running, task>>

\* the call is over; its config and prompt are dropped
HelperDone ==
    /\ call.pc = "sent"
    /\ call' = NoCall
    /\ UNCHANGED <<sc, boot, settings, svcVars, running, task>>

HelperNext == CallHelper \/ RunHelper \/ SendToProvider \/ HelperDone

HelperSpec == Init /\ [][HelperNext]_vars

\* ----------------------------- the SoundCloud routes and the start script
SoundCloudSpec == Init /\ [][SoundCloudNext]_vars

StartSpec == Init /\ [][StartNext]_vars

\* every step of the start script is taken in the end: a connection attempt
\* returns or raises, sleep(2) ends
StartFairSpec == StartSpec /\ WF_vars(StartNext)

\* ------------------------------------------------------------------ claims
Running(t) == task[t].pc \in {"enter", "waiting", "finished"}

Finished(t) == task[t].pc = "finished"

\* C1: a provider call is issued only on an initialized service; on a service that
\* is not initialized every generation operation fails with the not-initialized
\* error and has issued no provider call.
C1_ProviderCallsNeedInitialized ==
    \A t \in Tasks :
        Running(t) =>
            LET f == task[t]
                s == f.req.svc
                issued == \E p \in Providers : f.calls[p] > 0
            IN /\ (f.inflight # {} \/ issued) => is_initialized[s]
               /\ (Finished(t) /\ f.req.op \in GenerationOps /\ ~is_initialized[s])
                     => (f.out = Raise(NotInitialized) /\ ~issued)

C1_Witness ==
    \E t \in Tasks :
        /\ Finished(t)
        /\ task[t].req.op \in FallbackOps
        /\ task[t].svc # 0
        /\ ~is_initialized[task[t].req.svc]
        /\ task[t].out = Raise(NotInitialized)

\* C2: in generate_music_intro and test_connection Gemini is called only after the
\* text-bison call has returned by raising; the two calls are never in flight
\* together, and when text-bison returned a result Gemini is never called.
C2_SecondaryOnlyAfterPrimaryRaised ==
    \A t \in Tasks :
        (Running(t) /\ task[t].req.op \in FallbackOps) =>
            LET f == task[t] IN
            /\ Cardinality(f.inflight) <= 1
            /\ ("gemini" \in f.inflight \/ f.calls["gemini"] > 0) =>
                  /\ "bison" \notin f.inflight
                  /\ f.calls["bison"] = 1
                  /\ f.primary \in {Raise(e) : e \in ProviderErrors}
            /\ f.primary.ok => (f.calls["gemini"] = 0 /\ ~f.secondary)

C2_Witness ==
    \E t \in Tasks :
        /\ task[t].req.op \in FallbackOps
        /\ task[t].pc = "waiting"
        /\ task[t].inflight = {"gemini"}
        /\ task[t].primary = Raise(GenerationFailure)

\* C3: on an initialized service, when text-bison raises a generation failure in
\* generate_music_intro or test_connection, the operation ends with exactly what
\* Gemini did (its text, or its failure); text-bison was called once and Gemini
\* at most once.
C3_FallbackResultIsSecondary ==
    \A t \in Tasks :
        (/\ Finished(t)
         /\ task[t].req.op \in FallbackOps
         /\ is_initialized[task[t].req.svc]
         /\ task[t].primary = Raise(GenerationFailure)) =>
            LET f == task[t] IN
            /\ f.second \in TextOutcomes
            /\ f.out = f.second
            /\ f.calls["bison"] = 1
            /\ f.calls["gemini"] <= 1

C3_Witness ==
    \E t \in Tasks :
        /\ Finished(t)
        /\ task[t].req.op = "generate_music_intro"
        /\ task[t].primary = Raise(GenerationFailure)
        /\ task[t].second = Raise(OtherError)
        /\ task[t].out = Raise(OtherError)

\* C4: the fallback swallows nothing but a generation failure of the primary: when
\* the primary path fails with an error of another class, the secondary path is
\* not entered and that error is what the caller gets.
C4_FallbackOnlyOnGenerationFailure ==
    \A t \in Tasks :
        (/\ Running(t)
         /\ task[t].req.op \in FallbackOps
         /\ task[t].primary.err \in {NotInitialized, OtherError}) =>
            /\ ~task[t].secondary
            /\ Finished(t) => task[t].out = task[t].primary

\* C5: with requests pending together on a fresh process, _initialize_client runs
\* exactly once per service and every caller of the accessor gets the same
\* instance, in the state that run left.
C5_InitializedExactlyOnce ==
    \A s \in Services :
        /\ initRuns[s] <= 1
        /\ Cardinality(handed[s]) <= 1
        /\ handed[s] # {} => (initRuns[s] = 1 /\ handed[s] = {instance[s]})
        /\ \A t \in Tasks :
              (task[t].req.svc = s /\ task[t].svc # 0) => task[t].svc = instance[s]

\* a request that arrived on the fresh process, together with the request that
\* then constructed the service, gets that instance without constructing
C5_Witness ==
    \E t \in Tasks :
        /\ task[t].pc = "enter"
        /\ task[t].fresh
        /\ ~task[t].constructed
        /\ task[t].svc = instance[task[t].req.svc]
        /\ initRuns[task[t].req.svc] = 1

\* C6: the initialization of a service happens once, on the first call of its
\* accessor; afterwards no step changes the instance or any of its fields, so a
\* Ready service stays Ready and an Unavailable one is never probed again.
ServiceFields(s) ==
    <<instance[s], is_initialized[s], client[s], initRuns[s], initLog[s]>>

C6_InitializationIsFinal ==
    [][\A s \in Services :
          /\ State(s) # "Uninitialized" => (ServiceFields(s))' = ServiceFields(s)
          /\ State(s)' # "Uninitialized"
                => ((initRuns[s])' = 1 /\ (State(s) = "Uninitialized" => initRuns[s] = 0))]_vars

C6_Witness ==
    \E t \in Tasks :
        /\ task[t].pc = "enter"
        /\ ~task[t].constructed
        /\ task[t].svc = instance[task[t].req.svc]
        /\ State(task[t].req.svc) = "Unavailable"

\* C7: after construction a service is Ready exactly when credential resolution
\* gave a method other than NONE and the cloud init / client construction did not
\* raise; otherwise it is Unavailable, and the constructor does not raise when
\* the credentials are merely absent.
C7_ReadyIffResolvedAndInitOk ==
    \A s \in Services :
        initRuns[s] > 0 =>
            /\ is_initialized[s] <=> (initLog[s].method # "NONE" /\ initLog[s].sdk = "ok")
            /\ initLog[s].method = "NONE" => initLog[s].sdk = "notcalled"
            /\ ~is_initialized[s] => State(s) = "Unavailable"
            /\ initLog[s].discovery \in {"notcalled", "absent"}
                  => (initLog[s].exc = "none" /\ instance[s] # 0)

C7_Witness ==
    /\ initRuns["gai"] = 1
    /\ initLog["gai"].discovery = "absent"
    /\ State("gai") = "Unavailable"
    /\ initRuns["vas"] = 1
    /\ State("vas") = "Ready"

\* the order of checks that the specification gives for credential resolution
ResolutionInOrder(s) ==
    IF settings.apiKey
    THEN initLog[s].method = "API_KEY" /\ initLog[s].discovery = "notcalled"
    ELSE IF settings.project
    THEN /\ initLog[s].discovery # "notcalled"
         /\ initLog[s].method = IF initLog[s].discovery = "found" THEN "AMBIENT" ELSE "NONE"
    ELSE initLog[s].method = "NONE" /\ initLog[s].discovery = "notcalled"

\* the service never reads the API key: ambient credentials or nothing
ResolutionAmbientOnly(s) ==
    IF settings.project
    THEN /\ initLog[s].discovery # "notcalled"
         /\ initLog[s].method = IF initLog[s].discovery = "found" THEN "AMBIENT" ELSE "NONE"
    ELSE initLog[s].method = "NONE" /\ initLog[s].discovery = "notcalled"

C9_ResolverFaultPropagates ==
    \A s \in Services :
        (initRuns[s] > 0 /\ initLog[s].discovery = "fault") =>
            (initLog[s].exc # "none" /\ instance[s] = 0)

\* fields of a status response that say why the gateway is unavailable
ExplanatoryFields == {"error", "message", "reason", "detail"}

HasExplanation(body) == \E k \in DOMAIN body \cap ExplanatoryFields : body[k] # ""

\* C10: the status operation never raises, and on an Unavailable service it gives
\* initialized = false together with a populated explanatory field.
C10_StatusExplainsUnavailable ==
    \A t \in Tasks :
        (Finished(t) /\ task[t].req.op \in StatusOps /\ task[t].svc # 0) =>
            LET f == task[t] IN
            /\ f.out.ok
            /\ State(f.req.svc) = "Unavailable" =>
                  /\ f.snapshot.initialized = FALSE
                  /\ HasExplanation(f.snapshot)
                        \/ (f.http.kind = "json" /\ HasExplanation(f.http.body))

\* no API key, and no project id or no ambient credentials
NoCredentials(s) ==
    /\ ~settings.apiKey
    /\ initRuns[s] > 0
    /\ initLog[s].discovery \in {"notcalled", "absent"}

\* C11: when no credentials are configured, the status snapshot reports
\* initialized = false and an authentication method "NONE", and text generation
\* fails with the not-initialized error.
C11_NoCredentialsStatusNone ==
    \A t \in Tasks :
        (Finished(t) /\ task[t].svc # 0 /\ NoCredentials(task[t].req.svc)) =>
            LET f == task[t] IN
            /\ f.req.op \in StatusOps =>
                  /\ f.snapshot.initialized = FALSE
                  /\ "auth_method" \in DOMAIN f.snapshot
                  /\ f.snapshot.auth_method = "NONE"
            /\ f.req.op \in GenerationOps => f.out = Raise(NotInitialized)

\* the task has read the backend stream of its operation
StreamRead(t) == Finished(t) /\ task[t].calls["stream"] = 1

NonEmpty(c) == c # ""

RECURSIVE TotalLen(_)
TotalLen(q) == IF q = <<>> THEN 0 ELSE Len(Head(q)) + TotalLen(Tail(q))

\* C12: generate_content drains the stream and returns exactly the concatenation
\* of its fragments in arrival order, which is the concatenation of what
\* generate_content_stream yields for the same backend stream: nothing is
\* reordered, dropped or repeated, and empty fragments contribute nothing.
C12_AggregateIsConcatenation ==
    \A t \in Tasks :
        (StreamRead(t) /\ task[t].req.op = "generate_content" /\ ~task[t].stream.err) =>
            LET f == task[t]
                q == f.stream.chunks
            IN /\ f.out.ok
               /\ f.out.val = Concat(SelectSeq(q, NonEmpty))
               /\ Len(f.out.val) = TotalLen(q)
               /\ Len(q) = 0 => f.out.val = ""
               /\ Len(q) = 1 => f.out.val = q[1]
               /\ Len(q) = 2 => f.out.val = q[1] \o q[2]
               /\ Len(q) = 3 => f.out.val = (q[1] \o q[2]) \o q[3]

C12_Witness ==
    \E t \in Tasks :
        /\ StreamRead(t)
        /\ task[t].req.op = "generate_content"
        /\ task[t].stream = [chunks |-> <<"b", "a">>, err |-> FALSE]
        /\ task[t].out = Return("ba")

\* C13: when the backend stream raises after any number of fragments, the
\* aggregating operations end with the error and never return the text
\* accumulated so far.
C13_NoPartialResult ==
    \A t \in Tasks :
        (/\ StreamRead(t)
         /\ task[t].req.op \in {"generate_content", "generate_music_analysis",
                                  "generate_music_recommendation"}
         /\ task[t].stream.err) =>
            /\ ~task[t].out.ok
            /\ task[t].out = Raise(GenerationFailure)
            /\ task[t].out.val = ""

C13_Witness ==
    \E t \in Tasks :
        /\ StreamRead(t)
        /\ task[t].req.op = "generate_music_analysis"
        /\ task[t].stream = [chunks |-> <<"a">>, err |-> TRUE]
        /\ task[t].yielded = <<"a">>
        /\ ~task[t].out.ok

\* C14: generate_content_stream never yields an empty fragment, and an empty
\* chunk does not end the stream: what it yields is every non-empty chunk of the
\* backend, in backend order, and it ends normally exactly when the backend
\* stream is exhausted.
C14_EmptyChunksSkipped ==
    \A t \in Tasks :
        (StreamRead(t) /\ task[t].req.op = "generate_content_stream") =>
            LET f == task[t] IN
            /\ \A i \in 1..Len(f.yielded) : f.yielded[i] # ""
            /\ f.yielded = SelectSeq(f.stream.chunks, NonEmpty)
            /\ f.out.ok <=> ~f.stream.err

C14_Witness ==
    \E t \in Tasks :
        /\ StreamRead(t)
        /\ task[t].req.op = "generate_content_stream"
        /\ task[t].stream = [chunks |-> <<"", "a">>, err |-> FALSE]
        /\ task[t].yielded = <<"a">>
        /\ task[t].out.ok

\* the helper call has produced its result
Built(fn) == call.fn = fn /\ call.pc \in {"built", "sent"}

\* the parameters of a that lie outside the documented ranges: temperature in
\* [0, 2], top_p in [0, 1], top_k >= 1, max_output_tokens >= 1
OffendingFields(a) ==
    {k \in DOMAIN a :
        \/ k = "temperature" /\ (a[k] < 0 \/ a[k] > 200)
        \/ k = "top_p" /\ (a[k] < 0 \/ a[k] > 100)
        \/ k = "top_k" /\ a[k] < 1
        \/ k = "max_output_tokens" /\ a[k] < 1}

IsValidationError(r, fields) ==
    /\ DOMAIN r = {"error", "field"}
    /\ r.error = "ValidationError"
    /\ r.field \in fields

\* C15: for parameter values outside the documented ranges, building the
\* generation config fails with a ValidationError that names an offending field,
\* and no out-of-range value is forwarded to a provider.
C15_OutOfRangeRejected ==
    \A fn \in {"_create_generate_config", "generation_config"} :
        (Built(fn) /\ OffendingFields(call.args) # {}) =>
            /\ IsValidationError(call.result, OffendingFields(call.args))
            /\ call.pc = "sent" => OffendingFields(call.sent) = {}

SafetyPolicy ==
    {[category |-> c, threshold |-> "OFF"] :
        c \in {"HARM_CATEGORY_HATE_SPEECH", "HARM_CATEGORY_DANGEROUS_CONTENT",
                "HARM_CATEGORY_SEXUALLY_EXPLICIT", "HARM_CATEGORY_HARASSMENT"}}

HasSafetyPolicy(config) ==
    /\ Len(config.safety_settings) = 4
    /\ {config.safety_settings[i] : i \in 1..Len(config.safety_settings)} = SafetyPolicy

\* C16: every generation config built by _create_generate_config, for every
\* combination of temperature, top_p and max_output_tokens, carries exactly the
\* four harm categories, each with threshold OFF, and so does what is sent.
C16_SafetyPolicyFixed ==
    Built("_create_generate_config") =>
        /\ HasSafetyPolicy(call.result)
        /\ call.pc = "sent" => HasSafetyPolicy(call.sent)

C16_Witness ==
    /\ call.fn = "_create_generate_config"
    /\ call.pc = "sent"
    /\ call.args = [temperature |-> -100, top_p |-> 105, max_output_tokens |-> 0]
    /\ HasSafetyPolicy(call.sent)

\* google-genai's ThinkingConfig: a thinking_budget of 0 disables thinking, a
\* budget of -1 lets the model choose its budget (automatic)
ThinkingDisabled(config) == config.thinking_config.thinking_budget = 0

ThinkingAutomatic(config) == config.thinking_config.thinking_budget = -1

C20_FirstTenSongs ==
    Built("generate_playlist_description") =>
        LET songs == call.args.songs
            n == Len(songs)
            k == IF n < 10 THEN n ELSE 10
            r == call.result
        IN /\ Len(r.used) = k
           /\ \A i \in 1..k : r.used[i] = songs[i]
           /\ r.prompt.songs_text = JoinLines([i \in 1..k |-> songs[i]])
           /\ Len(r.prompt.songs_text) = IF k = 0 THEN 0 ELSE 2 * k - 1
           /\ PlaylistRequest(SubSeq(songs, 1, k)).prompt = r.prompt
           /\ call.pc = "sent" => call.sent = r

C20_Witness ==
    /\ call.fn = "generate_playlist_description"
    /\ call.pc = "sent"
    /\ Len(call.args.songs) = 11
    /\ call.args.songs[11] = "y"
    /\ \A i \in 1..10 : call.args.songs[i] = "x"
    /\ Len(call.sent.used) = 10
    /\ Len(call.sent.prompt.songs_text) = 19

SingleProviderOps ==
    {"generate_playlist_description", "analyze_music_preferences",
     "generate_music_recommendation", "generate_music_analysis",
     "generate_text_with_bison", "generate_text_with_gemini"}

TotalCalls(f) == f.calls["bison"] + f.calls["gemini"] + f.calls["stream"]

\* the one provider of a single-provider operation has failed
ProviderFailed(f) ==
    \/ f.calls["bison"] = 1 /\ f.primary \in {Raise(e) : e \in ProviderErrors}
    \/ f.calls["gemini"] = 1 /\ f.second \in {Raise(e) : e \in ProviderErrors}
    \/ f.calls["stream"] = 1 /\ f.stream.err

\* C18: an operation without a defined fallback uses a single provider: it makes
\* at most one provider call, and when that call fails the operation ends at once
\* with that failure, exactly one call made and no other provider tried.
C18_SingleProviderNoFallback ==
    \A t \in Tasks :
        (Running(t) /\ task[t].req.op \in SingleProviderOps) =>
            LET f == task[t] IN
            /\ TotalCalls(f) <= 1
            /\ ~f.secondary
            /\ ProviderFailed(f) =>
                  /\ Finished(t)
                  /\ f.inflight = {}
                  /\ TotalCalls(f) = 1
                  /\ ~f.out.ok
                  /\ f.out = (IF f.calls["bison"] = 1 THEN f.primary
                              ELSE IF f.calls["gemini"] = 1 THEN f.second
                              ELSE Raise(GenerationFailure))

C18_Witness ==
    \E t \in Tasks :
        /\ Finished(t)
        /\ task[t].req.op = "generate_playlist_description"
        /\ task[t].primary = Raise(GenerationFailure)
        /\ task[t].out = Raise(GenerationFailure)
        /\ task[t].calls = [NoCalls EXCEPT !["bison"] = 1]

\* the name of the provider that produced the text of a finished text request
ProducedBy(f) ==
    IF f.calls["bison"] = 1 /\ f.primary.ok THEN "text-bison"
    ELSE IF f.calls["gemini"] = 1 /\ f.second.ok THEN "gemini-pro"
    ELSE "none"

\* C19: text generation goes to exactly one provider, chosen by the model of the
\* request (Gemini when it names Gemini, text-bison when it names text-bison),
\* and the model_used of the response is the provider that produced the text,
\* for every value of the model field.
C19_ModelUsedIsProvider ==
    \A t \in Tasks :
        (Finished(t) /\ task[t].req.op \in TextOps /\ task[t].out.ok) =>
            LET f == task[t] IN
            /\ TotalCalls(f) = 1
            /\ f.req.model = "gemini-pro" => f.calls["gemini"] = 1
            /\ f.req.model = "text-bison" => f.calls["bison"] = 1
            /\ f.http.body.model_used = ProducedBy(f)

\* C21: audio analysis goes on only with a content type that is present and
\* starts with "audio/"; any other request is rejected with HTTP 400 (not a 5xx),
\* its upload is not read, the service is not fetched and no provider is called.
C21_NonAudioRejected ==
    \A t \in Tasks :
        LET f == task[t] IN
        (f.req.op = "generate_music_analysis" /\ f.pc # "ready") =>
            IF /\ f.req.content_type.present
               /\ Len(f.req.content_type.text) > 0
               /\ f.req.content_type.text[1] = "audio/"
            THEN f.pc # "rejected" /\ f.upload_read
            ELSE /\ f.pc = "rejected"
                 /\ f.http.kind = "HTTPException"
                 /\ f.http.status = 400
                 /\ ~f.upload_read
                 /\ f.svc = 0
                 /\ f.inflight = {}
                 /\ TotalCalls(f) = 0

C21_Witness ==
    \E t \in Tasks :
        /\ task[t].pc = "rejected"
        /\ task[t].req.content_type = [present |-> TRUE, text |-> <<"video/", "audio/">>]
        /\ task[t].http.status = 400
        /\ instance["vai"] = 0

\* C22: a generation operation that fails reaches the HTTP caller as an HTTP 5xx
\* whose message carries the cause, never as a success response; only the
\* status operations answer a failure without raising, and then with
\* success = false.
C22_FailureReachesCaller ==
    \A t \in Tasks :
        (Finished(t) /\ HasRoute(task[t].req)) =>
            LET f == task[t]
                degrading == StatusOps \cup ProbeOps
            IN /\ (~f.out.ok /\ f.req.op \notin degrading) =>
                     /\ f.http.kind = "HTTPException"
                     /\ f.http.status \in 500..599
                     /\ f.http.body.detail = f.out.err
               /\ f.http.kind = "json" =>
                     /\ f.http.body.success <=> f.out.ok
                     /\ ~f.out.ok => f.req.op \in degrading

C22_Witness ==
    \E t \in Tasks :
        /\ Finished(t)
        /\ task[t].req.svc = "vai"
        /\ task[t].req.op = "generate_content"
        /\ task[t].stream = [chunks |-> <<"a">>, err |-> TRUE]
        /\ task[t].http.status = 500
        /\ task[t].http.body.detail = GenerationFailure

\* the task is in generate_content, waiting for the backend to deliver its stream
Draining(t) ==
    /\ task[t].pc = "waiting"
    /\ "stream" \in task[t].inflight
    /\ task[t].req.op = "generate_content"

\* C23: draining a stream does not block other requests: while one request's
\* generate_content waits for the backend, the handler of another request that
\* has been issued can start (and so run to completion).
C23_DrainDoesNotBlock ==
    \A t, u \in Tasks :
        (t # u /\ Draining(t) /\ task[u].pc = "ready") => ENABLED Dispatch(u)

\* C24: the drains of concurrent generate_content calls are independent: the
\* step in which a call gets its stream changes the frame of no other request
\* and no field of the service, and the result of the call is the in-order
\* concatenation of the fragments of its own stream.
C24_DrainsIndependent ==
    [][\A t \in Tasks :
          (Draining(t) /\ task[t]' # task[t]) =>
              /\ \A u \in Tasks \ {t} : task[u]' = task[u]
              /\ UNCHANGED svcVars
              /\ (task[t].pc)' = "finished"
              /\ ~(task[t].stream.err)' =>
                    (task[t].out)' = Return(Concat(SelectSeq((task[t].stream.chunks)', NonEmpty)))]_vars

\* a call has drained its stream while another request, issued together with it,
\* is pending on the same event loop
C24_Witness ==
    \E t, u \in Tasks :
        /\ StreamRead(t)
        /\ task[t].req.op = "generate_content"
        /\ task[t].stream = [chunks |-> <<"a", "b">>, err |-> FALSE]
        /\ task[t].out = Return("ab")
        /\ task[u].pc = "ready"

\* the task is inside a service operation, or is handing back its result
InOperation(t) == task[t].pc \in {"enter", "waiting", "finished"}

\* C25: after construction no operation writes a field of the service instance,
\* whether it succeeds or fails: every step of an operation leaves is_initialized
\* and client as they are, and with them the instance and the settings from which
\* model, project_id and location were copied.
C25_OperationsWriteNoField ==
    [][\A t \in Tasks :
          (InOperation(t) /\ task[t]' # task[t]) =>
              /\ is_initialized' = is_initialized
              /\ client' = client
              /\ instance' = instance
              /\ settings' = settings]_vars

C25_Witness ==
    \E t \in Tasks :
        /\ Finished(t)
        /\ task[t].req.op = "test_connection"
        /\ task[t].primary = Raise(GenerationFailure)
        /\ task[t].out = Raise(OtherError)
        /\ is_initialized["gai"]

\* C26: the status snapshot agrees with the initialization check: a constructed
\* service reports initialized = true exactly when _check_initialization /
\* _check_client passes; on the services that hold a client is_initialized
\* implies a client, and an operation on a service that reports initialized
\* never ends with the not-initialized error.
C26_StatusAgreesWithCheck ==
    /\ \A s \in Services :
          instance[s] # 0 =>
              /\ ServiceStatus(s).initialized <=> CheckInitialization(s)
              /\ (s # "gai" /\ is_initialized[s]) => client[s] # "None"
    /\ \A t \in Tasks :
          (Finished(t) /\ task[t].svc # 0) =>
              LET f == task[t] IN
              /\ f.req.op \in StatusOps =>
                    (f.snapshot.initialized <=> CheckInitialization(f.req.svc))
              /\ (f.req.op \in GenerationOps /\ ServiceStatus(f.req.svc).initialized)
                    => f.out # Raise(NotInitialized)

C26_Witness ==
    \E t \in Tasks :
        /\ Finished(t)
        /\ task[t].req = [NoRequest EXCEPT !.svc = "vas", !.op = "get_status"]
        /\ task[t].snapshot.initialized
        /\ client["vas"] = "VertexClient"
        /\ instance["vai"] # 0
        /\ ~is_initialized["vai"]

\* C27: when generate_music_intro or test_connection falls back, Gemini gets the
\* same prompt and the same explicitly passed temperature and max_output_tokens
\* as the text-bison call that failed.
C27_FallbackKeepsRequest ==
    \A fn \in {"generate_music_intro", "test_connection"} :
        Built(fn) =>
            LET r == IF call.pc = "sent" THEN call.sent ELSE call.result IN
            /\ r.primary.model = "text-bison"
            /\ r.secondary.model = "gemini-pro"
            /\ r.secondary.prompt = r.primary.prompt
            /\ r.secondary.temperature = r.primary.temperature
            /\ r.secondary.max_output_tokens = r.primary.max_output_tokens
            /\ fn = "generate_music_intro" =>
                  /\ r.primary.prompt.genre = call.args.genre
                  /\ r.primary.temperature = 80
                  /\ r.primary.max_output_tokens = 512

C27_Witness ==
    /\ call.fn = "generate_music_intro"
    /\ call.pc = "sent"
    /\ call.args.genre = "rock"
    /\ call.sent.secondary.prompt.genre = "rock"
    /\ call.sent.secondary.temperature = 80
    /\ call.sent.secondary.top_p # call.sent.primary.top_p

\* C28: in get_soundcloud_token, when the upstream answers with a status s other
\* than 200, the caller gets an HTTP error with that same status s and the
\* upstream's error text; the status is not replaced by 500.
C28_UpstreamStatusKept ==
    (/\ sc.route = "get_soundcloud_token"
     /\ sc.pc = "responded"
     /\ sc.upstream.kind = "response"
     /\ sc.upstream.status # 200)
    => /\ sc.response.raised = "HTTPException"
       /\ sc.response.status = sc.upstream.status
       /\ sc.response.text = sc.upstream.text

\* a header value with its leading "Bearer " or "OAuth " removed, and nothing else
LeadingPrefixRemoved(v) ==
    IF StartsWith(v, "Bearer ") \/ StartsWith(v, "OAuth ") THEN Tail(v) ELSE v

\* the token as C29 describes it
DescribedToken(access_token, authorization) ==
    IF Truthy(access_token) THEN access_token
    ELSE IF Truthy(authorization) THEN Some(LeadingPrefixRemoved(authorization.value))
    ELSE None

\* C29: get_soundcloud_tracks makes its upstream request only with a resolved
\* non-empty token: the access_token query parameter when there is one, otherwise
\* the Authorization header with a leading "Bearer " or "OAuth " removed; with
\* no token from either it answers 401 and makes no upstream request; a 401
\* raised this way or returned by the upstream never becomes a 500.
C29_TracksTokenAndStatus ==
    (sc.route = "get_soundcloud_tracks" /\ sc.pc \in {"upstream", "responded"}) =>
        LET described == DescribedToken(sc.access_token, sc.authorization) IN
        /\ sc.requests > 0 =>
              /\ Truthy(sc.token)
              /\ sc.token.value = described.value
              /\ sc.sent = <<"OAuth ">> \o described.value
        /\ ~Truthy(described) =>
              /\ sc.requests = 0
              /\ sc.pc = "responded"
              /\ sc.response.status = 401
        /\ (sc.pc = "responded" /\ (sc.requests = 0 \/ sc.upstream.status = 401)) =>
              sc.response.status = 401

Returns == boot.pc \in {"returned", "serving"}

\* the counts of wait_for_database: never more than max_retries attempts; True
\* comes from the one attempt that followed only failures; False comes right
\* after the max_retries-th failure, with no sleep behind that attempt
C30_Counts ==
    /\ boot.attempts <= max_retries
    /\ boot.sleeps <= boot.attempts
    /\ Returns =>
          /\ boot.result \in {"True", "False"}
          /\ ~boot.slept
          /\ boot.result = "True" =>
                /\ boot.attempts = boot.retry_count + 1
                /\ boot.sleeps = boot.retry_count
          /\ boot.result = "False" =>
                /\ boot.attempts = max_retries
                /\ boot.retry_count = max_retries
                /\ boot.sleeps = max_retries - 1

\* once wait_for_database has returned there is no further attempt or sleep,
\* and the only thing that follows is the start of the server
C30_NothingAfterReturn ==
    Returns =>
        /\ boot'.attempts = boot.attempts
        /\ boot'.sleeps = boot.sleeps
        /\ boot'.result = boot.result
        /\ boot'.pc = "serving"

\* C30: wait_for_database always terminates: at most 30 connection attempts,
\* True at the first attempt that succeeds with no attempt after it, False
\* immediately after the 30th failure in a row without sleeping again; the
\* server is started afterwards in either case.
C30_WaitTerminates ==
    /\ []C30_Counts
    /\ [][C30_NothingAfterReturn]_vars
    /\ <>(boot.pc = "serving")

C30_Witness ==
    /\ boot.pc = "serving"
    /\ boot.result = "False"
    /\ boot.attempts = max_retries
    /\ boot.sleeps = max_retries - 1

====
